---- MODULE Spec2Model ----
(***************************************************************************)
(* Model of llm-chain-openai/src/chatgpt/options.rs: the Model enum with   *)
(* its Default / ToString / From<String> implementations, and the two      *)
(* option records PerInvocation and PerExecutor with their derived serde   *)
(* implementations.                                                        *)
(*                                                                         *)
(* Spec         a caller converting between Model values and their texts.  *)
(* SpecOptions  a caller building, serializing and deserializing the two   *)
(*              option records.                                            *)
(***************************************************************************)
EXTENDS Naturals, Sequences, FiniteSets

VARIABLES
    trail,          \* the values of one conversion chain, oldest first
    origin,         \* how the first value of the chain was made
    inv,            \* the caller's PerInvocation value
    steps,          \* for_model calls since the last PerInvocation::new()
    lastArg,        \* the Model passed to the last for_model call
    exec,           \* the caller's PerExecutor value
    execDefaulted,  \* exec is as PerExecutor::default() left it
    wire,           \* the last serialized value
    sent,           \* what was serialized into wire
    back            \* the result of deserializing wire

modelVars == <<trail, origin>>
optVars == <<inv, steps, lastArg, exec, execDefaulted, wire, sent, back>>
vars == <<trail, origin, inv, steps, lastArg, exec, execDefaulted, wire, sent, back>>

----------------------------------------------------------------------------
(* Bounds *)

\* longest conversion chain followed
MaxChain == 5
\* most spaces put on either side of a name
MaxPad == 1
\* most for_model calls chained after one new()
MaxSteps == 3

----------------------------------------------------------------------------
(* Strings *)

RECURSIVE Spaces(_)
Spaces(n) == IF n = 0 THEN "" ELSE " " \o Spaces(n - 1)

Pad(l, s, r) == Spaces(l) \o s \o Spaces(r)

\* The two canonical names, spellings that differ from them by letter case,
\* prefixes and extensions of them, the variant identifiers, and unrelated names.
BaseNames ==
    { "gpt-3.5-turbo", "gpt-4",
      "GPT-3.5-TURBO", "Gpt-3.5-Turbo", "GPT-4", "Gpt-4",
      "gpt-3.5", "gpt-4-32k", "gpt-",
      "ChatGPT3_5Turbo", "GPT4", "Other",
      "", "claude-3", "your_custom_model_name" }

Strings == { Pad(l, b, r) : l \in 0..MaxPad, b \in BaseNames, r \in 0..MaxPad }

----------------------------------------------------------------------------
(* enum Model *)

ChatGPT3_5Turbo == [tag |-> "ChatGPT3_5Turbo"]
GPT4 == [tag |-> "GPT4"]
Other(s) == [tag |-> "Other", model |-> s]

WellKnown == { ChatGPT3_5Turbo, GPT4 }
Models == WellKnown \cup { Other(s) : s \in Strings }

\* Model::default() naming the other well-known variant
Model_default_gpt4 == GPT4

\* impl Default for Model
Model_default == ChatGPT3_5Turbo

\* to_string with the first arm's literal copied into the second
to_string_dup(self) ==
    CASE self = ChatGPT3_5Turbo -> "gpt-3.5-turbo"
      [] self = GPT4 -> "gpt-3.5-turbo"
      [] self.tag = "Other" -> self.model

\* impl ToString for Model
to_string(self) ==
    CASE self = ChatGPT3_5Turbo -> "gpt-3.5-turbo"
      [] self = GPT4 -> "gpt-4"
      [] self.tag = "Other" -> self.model

\* Model::from with a misspelt first pattern
Model_from_typo(s) ==
    CASE s = "gpt-3.5" -> ChatGPT3_5Turbo
      [] s = "gpt-4" -> GPT4
      [] OTHER -> Other(s)

\* Model::from matching on s.trim()
Model_from_trim(s) ==
    CASE s \in { Pad(l, "gpt-3.5-turbo", r) : l, r \in 0..MaxPad } -> ChatGPT3_5Turbo
      [] s \in { Pad(l, "gpt-4", r) : l, r \in 0..MaxPad } -> GPT4
      [] OTHER -> Other(s)

\* Model::from matching on s.to_lowercase()
Model_from_caseless(s) ==
    CASE s \in { "gpt-3.5-turbo", "GPT-3.5-TURBO", "Gpt-3.5-Turbo" } -> ChatGPT3_5Turbo
      [] s \in { "gpt-4", "GPT-4", "Gpt-4" } -> GPT4
      [] OTHER -> Other(s)

\* Model::from without the two well-known patterns
Model_from_verbatim(s) == Other(s)

\* impl From<String> for Model
Model_from(s) ==
    CASE s = "gpt-3.5-turbo" -> ChatGPT3_5Turbo
      [] s = "gpt-4" -> GPT4
      [] OTHER -> Other(s)

----------------------------------------------------------------------------
(* A conversion chain: a Model or a String, then alternately to_string and *)
(* Model::from applied to the value before.                                *)

Text(s) == [kind |-> "text", text |-> s]
Val(m) == [kind |-> "model", model |-> m]

IsText(i) == i \in 1..Len(trail) /\ trail[i].kind = "text"
IsModel(i) == i \in 1..Len(trail) /\ trail[i].kind = "model"

\* Model::default()
Default ==
    /\ trail = <<>>
    /\ trail' = <<Val(Model_default)>>
    /\ origin' = "default"
    /\ UNCHANGED optVars

\* Model::ChatGPT3_5Turbo, Model::GPT4, Model::Other(s) written by the caller
Construct(m) ==
    /\ trail = <<>>
    /\ trail' = <<Val(m)>>
    /\ origin' = "variant"
    /\ UNCHANGED optVars

\* a String the caller holds
Input(s) ==
    /\ trail = <<>>
    /\ trail' = <<Text(s)>>
    /\ origin' = "text"
    /\ UNCHANGED optVars

\* m.to_string()
ToString ==
    /\ Len(trail) < MaxChain
    /\ IsModel(Len(trail))
    /\ trail' = Append(trail, Text(to_string(trail[Len(trail)].model)))
    /\ UNCHANGED <<origin, optVars>>

\* Model::from(s)
From ==
    /\ Len(trail) < MaxChain
    /\ IsText(Len(trail))
    /\ trail' = Append(trail, Val(Model_from(trail[Len(trail)].text)))
    /\ UNCHANGED <<origin, optVars>>

----------------------------------------------------------------------------
(* Option<T> *)

None == [some |-> FALSE]
Some(x) == [some |-> TRUE, val |-> x]

----------------------------------------------------------------------------
(* struct PerInvocation, struct PerExecutor *)

\* #[derive(Default)] on PerInvocation: every field's default, None for an Option
PerInvocation_default == [model |-> None]

\* PerInvocation::new
PerInvocation_new == PerInvocation_default

\* for_model returning the receiver as it is
for_model_noop(self, model) == self

\* for_model keeping a model that is already set
for_model_keep(self, model) ==
    IF self.model.some THEN self ELSE [self EXCEPT !.model = Some(model)]

\* PerInvocation::for_model: Self { model: Some(model), ..self }
for_model(self, model) == [self EXCEPT !.model = Some(model)]

\* #[derive(Default)] on PerExecutor
PerExecutor_default == [api_key |-> None]

\* the Models a caller passes to for_model
ModelArgs == WellKnown \cup { Other(s) : s \in BaseNames }

\* the credentials a caller stores
ApiKeys == { "", "sk-test", "gpt-4" }

----------------------------------------------------------------------------
(* The derived Serialize / Deserialize implementations, over JSON values.  *)
(* A unit variant is its name as a string, a newtype variant an object     *)
(* with the variant's name as its one key, None is null, Some(x) is x, and *)
(* a struct is an object keyed by its field names.                         *)

JNull == [t |-> "null"]
JStr(s) == [t |-> "str", s |-> s]
JEmpty == [t |-> "empty"]
JObj(k, v) == [t |-> "obj", k |-> k, v |-> v]
NoWire == [t |-> "none"]

Ok(x) == [ok |-> TRUE, val |-> x]
Err(e) == [ok |-> FALSE, msg |-> e]

\* Model serialized as its to_string text
Serialize_Model_text(m) == JStr(to_string(m))

\* #[derive(Serialize)] on Model
Serialize_Model(m) ==
    CASE m = ChatGPT3_5Turbo -> JStr("ChatGPT3_5Turbo")
      [] m = GPT4 -> JStr("GPT4")
      [] m.tag = "Other" -> JObj("Other", JStr(m.model))

\* #[derive(Deserialize)] on Model
Deserialize_Model(w) ==
    CASE w.t = "str" ->
           CASE w.s = "ChatGPT3_5Turbo" -> Ok(ChatGPT3_5Turbo)
             [] w.s = "GPT4" -> Ok(GPT4)
             [] w.s = "Other" -> Err("expected newtype variant")
             [] OTHER -> Err("unknown variant")
      [] w.t = "obj" ->
           CASE w.k = "ChatGPT3_5Turbo" ->
                  IF w.v = JNull THEN Ok(ChatGPT3_5Turbo) ELSE Err("expected unit variant")
             [] w.k = "GPT4" ->
                  IF w.v = JNull THEN Ok(GPT4) ELSE Err("expected unit variant")
             [] w.k = "Other" ->
                  IF w.v.t = "str" THEN Ok(Other(w.v.s)) ELSE Err("expected a string")
             [] OTHER -> Err("unknown variant")
      [] OTHER -> Err("expected enum Model")

\* #[derive(Serialize)] on PerInvocation
Serialize_PerInvocation(p) ==
    JObj("model", IF p.model.some THEN Serialize_Model(p.model.val) ELSE JNull)

\* #[derive(Deserialize)] on PerInvocation: an unknown key is skipped and a
\* missing Option field is None
Deserialize_PerInvocation(w) ==
    CASE w.t = "obj" /\ w.k = "model" ->
           IF w.v = JNull
           THEN Ok([model |-> None])
           ELSE LET r == Deserialize_Model(w.v)
                IN IF r.ok THEN Ok([model |-> Some(r.val)]) ELSE r
      [] w.t = "obj" /\ w.k # "model" -> Ok([model |-> None])
      [] w.t = "empty" -> Ok([model |-> None])
      [] OTHER -> Err("expected struct PerInvocation")

\* PerExecutor serialized with skip_serializing_if = "Option::is_none"
Serialize_PerExecutor_skip(p) ==
    IF p.api_key.some THEN JObj("api_key", JStr(p.api_key.val)) ELSE JEmpty

\* #[derive(Serialize)] on PerExecutor
Serialize_PerExecutor(p) ==
    JObj("api_key", IF p.api_key.some THEN JStr(p.api_key.val) ELSE JNull)

\* #[derive(Deserialize)] on PerExecutor
Deserialize_PerExecutor(w) ==
    CASE w.t = "obj" /\ w.k = "api_key" ->
           CASE w.v = JNull -> Ok([api_key |-> None])
             [] w.v.t = "str" -> Ok([api_key |-> Some(w.v.s)])
             [] OTHER -> Err("expected a string")
      [] w.t = "obj" /\ w.k # "api_key" -> Ok([api_key |-> None])
      [] w.t = "empty" -> Ok([api_key |-> None])
      [] OTHER -> Err("expected struct PerExecutor")

\* JSON documents that did not come from this program's Serialize
Foreign ==
    { JNull, JEmpty, JStr("GPT4"),
      JObj("model", JStr("Other")), JObj("model", JStr("gpt-4")),
      JObj("model", JObj("GPT4", JNull)), JObj("model", JObj("Other", JNull)),
      JObj("model", JObj("Custom", JStr("x"))), JObj("model", JEmpty),
      JObj("api_key", JEmpty), JObj("name", JStr("x")) }

Pending == [state |-> "pending"]
Done(as, r) == [state |-> "done", as |-> as, res |-> r]

----------------------------------------------------------------------------
(* Operations on the option records *)

\* PerInvocation::new()
New ==
    /\ inv' = PerInvocation_new
    /\ steps' = 0
    /\ lastArg' = None
    /\ UNCHANGED <<modelVars, exec, execDefaulted, wire, sent, back>>

\* inv.for_model(m)
ForModel(m) ==
    /\ steps < MaxSteps
    /\ inv' = for_model(inv, m)
    /\ steps' = steps + 1
    /\ lastArg' = Some(m)
    /\ UNCHANGED <<modelVars, exec, execDefaulted, wire, sent, back>>

\* PerExecutor::default()
ExecDefault ==
    /\ exec' = PerExecutor_default
    /\ execDefaulted' = TRUE
    /\ UNCHANGED <<modelVars, inv, steps, lastArg, wire, sent, back>>

\* exec.api_key = k (the field is pub)
SetApiKey(k) ==
    /\ exec' = [exec EXCEPT !.api_key = k]
    /\ execDefaulted' = FALSE
    /\ UNCHANGED <<modelVars, inv, steps, lastArg, wire, sent, back>>

\* serialize inv
SerializeInv ==
    /\ wire' = Serialize_PerInvocation(inv)
    /\ sent' = [kind |-> "PerInvocation", val |-> inv, fresh |-> steps = 0]
    /\ back' = Pending
    /\ UNCHANGED <<modelVars, inv, steps, lastArg, exec, execDefaulted>>

\* serialize exec
SerializeExec ==
    /\ wire' = Serialize_PerExecutor(exec)
    /\ sent' = [kind |-> "PerExecutor", val |-> exec, fresh |-> execDefaulted]
    /\ back' = Pending
    /\ UNCHANGED <<modelVars, inv, steps, lastArg, exec, execDefaulted>>

\* a document from elsewhere arrives
Receive(w) ==
    /\ wire' = w
    /\ sent' = [kind |-> "foreign"]
    /\ back' = Pending
    /\ UNCHANGED <<modelVars, inv, steps, lastArg, exec, execDefaulted>>

\* deserialize wire as a PerInvocation
DeserializeInv ==
    /\ wire # NoWire
    /\ back' = Done("PerInvocation", Deserialize_PerInvocation(wire))
    /\ UNCHANGED <<modelVars, inv, steps, lastArg, exec, execDefaulted, wire, sent>>

\* deserialize wire as a PerExecutor
DeserializeExec ==
    /\ wire # NoWire
    /\ back' = Done("PerExecutor", Deserialize_PerExecutor(wire))
    /\ UNCHANGED <<modelVars, inv, steps, lastArg, exec, execDefaulted, wire, sent>>

----------------------------------------------------------------------------
(* Specifications *)

Init ==
    /\ trail = <<>>
    /\ origin = "none"
    /\ inv = PerInvocation_new
    /\ steps = 0
    /\ lastArg = None
    /\ exec = PerExecutor_default
    /\ execDefaulted = TRUE
    /\ wire = NoWire
    /\ sent = [kind |-> "none"]
    /\ back = Pending

Next ==
    \/ Default
    \/ \E m \in Models : Construct(m)
    \/ \E s \in Strings : Input(s)
    \/ ToString
    \/ From

Spec == Init /\ [][Next]_vars

NextOptions ==
    \/ New
    \/ \E m \in ModelArgs : ForModel(m)
    \/ ExecDefault
    \/ \E k \in { None } \cup { Some(a) : a \in ApiKeys } : SetApiKey(k)
    \/ SerializeInv
    \/ SerializeExec
    \/ \E w \in Foreign : Receive(w)
    \/ DeserializeInv
    \/ DeserializeExec

SpecOptions == Init /\ [][NextOptions]_vars

----------------------------------------------------------------------------
(* Properties *)

\* the two texts the specification calls canonical
CanonicalNames == { "gpt-3.5-turbo", "gpt-4" }

\* positions of the chain
Pos == 1..Len(trail)

\* C1: a well-known variant converted to its text by to_string and back by
\* Model::from is the same variant again.
C1_WellKnownRoundTrip ==
    \A i \in Pos :
        (IsModel(i) /\ trail[i].model \in WellKnown /\ i + 2 <= Len(trail))
            => trail[i + 2] = trail[i]

C1_Witness ==
    /\ Len(trail) >= 3
    /\ origin = "variant"
    /\ trail[1] = Val(ChatGPT3_5Turbo)

\* C2: for a string s that is not exactly one of the two canonical names (a
\* different letter case, surrounding spaces and the empty string included),
\* Model::from(s) is Other carrying s, and its to_string is s.
C2_OtherStringsPassThrough ==
    \A i \in Pos :
        (IsText(i) /\ trail[i].text \notin CanonicalNames) =>
            /\ i + 1 <= Len(trail) => trail[i + 1] = Val(Other(trail[i].text))
            /\ i + 2 <= Len(trail) => trail[i + 2] = Text(trail[i].text)

C2_Witness ==
    /\ Len(trail) >= 3
    /\ origin = "text"
    /\ trail[1] = Text(" gpt-4")

\* C3: to_string applies to every Model and gives "gpt-3.5-turbo" for
\* ChatGPT3_5Turbo, "gpt-4" for GPT4 and s for Other(s); the texts of the two
\* well-known variants differ.
C3_ToStringTable ==
    /\ \A i \in Pos :
        (IsModel(i) /\ i + 1 <= Len(trail)) =>
            LET m == trail[i].model
            IN  /\ m = ChatGPT3_5Turbo => trail[i + 1] = Text("gpt-3.5-turbo")
                /\ m = GPT4 => trail[i + 1] = Text("gpt-4")
                /\ m \notin WellKnown => trail[i + 1] = Text(m.model)
    /\ (IsModel(Len(trail)) /\ Len(trail) < MaxChain) => ENABLED ToString
    /\ to_string(ChatGPT3_5Turbo) # to_string(GPT4)

C3_Witness ==
    /\ Len(trail) >= 2
    /\ trail[1] = Val(GPT4)
    /\ trail[2].kind = "text"

\* C4: an Other(s) whose s is not a canonical name, converted by to_string and
\* back by Model::from, is Other(s) again.
C4_FreeFormRoundTrip ==
    \A i \in Pos :
        (/\ IsModel(i)
         /\ trail[i].model \notin WellKnown
         /\ trail[i].model.model \notin CanonicalNames
         /\ i + 2 <= Len(trail))
            => trail[i + 2] = trail[i]

C4_Witness ==
    /\ Len(trail) >= 3
    /\ origin = "variant"
    /\ trail[1] = Val(Other("GPT-4"))

\* C5: Model::default() is ChatGPT3_5Turbo, and Model::from("gpt-3.5-turbo")
\* is that same value.
C5_DefaultIsTurbo ==
    /\ (origin = "default" /\ Len(trail) >= 1) => trail[1] = Val(ChatGPT3_5Turbo)
    /\ (Len(trail) >= 2 /\ trail[1] = Text("gpt-3.5-turbo")) => trail[2] = Val(Model_default)

C5_Witness ==
    /\ origin = "default"
    /\ Len(trail) >= 1

\* C6: PerInvocation::new() has model None, and new() followed by one
\* for_model(X) has model Some(X).
C6_NewThenForModel ==
    /\ steps = 0 => inv.model = None
    /\ steps = 1 => (lastArg.some /\ inv.model = Some(lastArg.val))

C6_Witness ==
    /\ steps = 1
    /\ lastArg = Some(Other("gpt-4"))

\* C7: a PerInvocation or PerExecutor value that is serialized and then
\* deserialized as the same type comes back equal to the value serialized.
C7_SerdeRoundTrip ==
    (back.state = "done" /\ sent.kind = back.as) => back.res = Ok(sent.val)

C7_Witness ==
    /\ back.state = "done"
    /\ back.as = "PerInvocation"
    /\ sent.kind = "PerInvocation"
    /\ sent.val = [model |-> Some(Other("gpt-4"))]

\* C8: after one or more for_model calls the model is Some of the last
\* argument; a model that is set stays set until a new() starts a fresh
\* record; a for_model call changes no field but model.
C8_LastForModelWins ==
    /\ [](steps > 0 => (lastArg.some /\ inv.model = lastArg))
    /\ [][(inv.model.some /\ steps' # 0) => inv'.model.some]_vars
    /\ [][steps' = steps + 1 =>
            /\ DOMAIN inv' = DOMAIN inv
            /\ \A f \in DOMAIN inv \ { "model" } : inv'[f] = inv[f]]_vars

C8_Witness ==
    /\ steps >= 2
    /\ inv.model = Some(GPT4)

\* C9: a default-constructed PerExecutor has api_key None and serializes to
\* the object whose one field api_key is null.
C9_DefaultExecutor ==
    /\ execDefaulted => exec.api_key = None
    /\ (sent.kind = "PerExecutor" /\ sent.fresh) => wire = JObj("api_key", JNull)

C9_Witness ==
    /\ sent.kind = "PerExecutor"
    /\ sent.fresh
    /\ wire # NoWire

\* C10: Model::from never gives Other carrying a canonical name, so
\* to_string(Model::from(s)) is s for every s; Model::from(to_string(m)) is
\* idempotent and takes Other("gpt-4") to GPT4 and Other("gpt-3.5-turbo") to
\* ChatGPT3_5Turbo.
C10_FromNormalises ==
    \A i \in Pos :
        /\ (IsModel(i) /\ i > 1) => trail[i].model \notin { Other(c) : c \in CanonicalNames }
        /\ (IsText(i) /\ i + 2 <= Len(trail)) => trail[i + 2] = trail[i]
        /\ (IsModel(i) /\ i + 4 <= Len(trail)) => trail[i + 4] = trail[i + 2]
        /\ (IsModel(i) /\ trail[i].model = Other("gpt-4") /\ i + 2 <= Len(trail))
              => trail[i + 2] = Val(GPT4)
        /\ (IsModel(i) /\ trail[i].model = Other("gpt-3.5-turbo") /\ i + 2 <= Len(trail))
              => trail[i + 2] = Val(ChatGPT3_5Turbo)

C10_Witness ==
    /\ Len(trail) = 5
    /\ trail[1] = Val(Other("gpt-4"))

====
